---- MODULE Spec2Model ----
(***************************************************************************)
(* The WhatsApp webhook receiver: three variants of one stateless HTTP     *)
(* handler (src/api/webhook.js, and the two handlers of                    *)
(* src/unnamed/part_000).  A deployment runs one variant; every inbound     *)
(* request is one invocation of `handler`, which reads the process         *)
(* environment, optionally checks an HMAC signature, routes on the event   *)
(* kind, optionally awaits one outbound fetch, and answers the provider.   *)
(***************************************************************************)
EXTENDS Naturals, Sequences, FiniteSets

VARIABLES variant, env, fetchHonoursTimeout, h

vars == <<variant, env, fetchHonoursTimeout, h>>

\* How many invocations of the handler may be in flight together.
MaxInFlight == 2

Slots == 1..MaxInFlight

(***************************************************************************)
(* JavaScript values.  `undefined` is the string U; `||` and `!` follow    *)
(* JavaScript truthiness on the strings the handler reads.                 *)
(***************************************************************************)
U == "undefined"

Truthy(v) == v \notin {U, ""}

Or(a, b) == IF Truthy(a) THEN a ELSE b

\* data.message?.extendedTextMessage
NoExtended == [defined |-> FALSE, text |-> U]

Extended(t) == [defined |-> TRUE, text |-> t]

\* data.message
NoMessage == [defined |-> FALSE, conversation |-> U,
              extendedTextMessage |-> NoExtended, messageType |-> U]

Message(c, x) == [defined |-> TRUE, conversation |-> c,
                  extendedTextMessage |-> x, messageType |-> U]

\* body.data: `defined` is FALSE when the payload carries no data at all.
MkData(def, from, msg, text, pushName, name, status) ==
    [defined |-> def, from |-> from, to |-> U, keyId |-> U, message |-> msg,
     text |-> text, pushName |-> pushName, name |-> name, status |-> status,
     messageTimestamp |-> U]

UndefData == MkData(FALSE, U, NoMessage, U, U, U, U)

EmptyData == MkData(TRUE, U, NoMessage, U, U, U, U)

\* The payload of the specification's example:
\* {from: "123", message: {conversation: "hi"}, pushName: "Bob"}.
ExampleData == MkData(TRUE, "123", Message("hi", NoExtended), U, "Bob", U, U)

Messages == {NoMessage, Message("hi", NoExtended), Message(U, Extended("ext")),
             Message("hi", Extended("ext")), Message(U, Extended(U))}

MessageData == {MkData(TRUE, "123", m, t, p, n, U) :
                  m \in Messages, t \in {U, "plain"},
                  p \in {U, "Bob"}, n \in {U, "Robert"}}

StatusData == {MkData(TRUE, U, NoMessage, U, U, U, s) :
                 s \in {"disconnected", "offline", "connected", U}}

\* Optional chaining: x?.f
OptMessage(d) == IF d.defined THEN d.message ELSE NoMessage

OptExtended(m) == IF m.defined THEN m.extendedTextMessage ELSE NoExtended

(***************************************************************************)
(* Request bodies as the runtime hands them to the handler: absent, null,  *)
(* a raw string (valid JSON text of an object or not, canonical or not),   *)
(* or an object (serializable or, with a cycle at its top level, not).     *)
(***************************************************************************)
MkBody(kind, json, canonical, serializable, event, data) ==
    [kind |-> kind, json |-> json, canonical |-> canonical,
     serializable |-> serializable, event |-> event, data |-> data,
     timestamp |-> "ts", session_id |-> "sess"]

UndefinedBody == MkBody("undefined", FALSE, FALSE, FALSE, U, UndefData)

NullBody == MkBody("null", FALSE, FALSE, TRUE, U, UndefData)

BadString == MkBody("string", FALSE, FALSE, TRUE, U, UndefData)

PlainEvents == {"webhook.test", "message.sent", "message-receipt.update",
                "qrcode.updated", "other.event"}

Contents ==
    {<<U, EmptyData>>, <<U, ExampleData>>, <<"message.sent", UndefData>>}
    \cup (PlainEvents \X {EmptyData})
    \cup ({"messages.received"} \X (MessageData \cup {UndefData, EmptyData}))
    \cup ({"messages-personal.received"} \X {ExampleData, UndefData})
    \cup ({"session.status"} \X (StatusData \cup {UndefData}))

Bodies ==
    {UndefinedBody, NullBody, BadString}
    \cup {MkBody("object", FALSE, TRUE, s, c[1], c[2]) :
            s \in BOOLEAN, c \in Contents}
    \cup {MkBody("string", TRUE, k, TRUE, c[1], c[2]) :
            k \in BOOLEAN, c \in Contents}

\* typeof body === "string"
IsString(b) == b.kind = "string"

\* b.event / b.data would throw a TypeError
Nullish(b) == b.kind \in {"undefined", "null"}

\* b.event, where b is neither null nor undefined (a string has no such property)
PropEvent(b) == IF b.kind = "object" THEN b.event ELSE U

PropData(b) == IF b.kind = "object" THEN b.data ELSE UndefData

\* JSON.parse(body) of a string body: whether it succeeds, and the object it gives.
JSONparseOk(b) == b.json

JSONparse(b) == MkBody("object", FALSE, TRUE, TRUE, b.event, b.data)

(***************************************************************************)
(* JSON.stringify and the HMAC.  A text is what is signed: the sender      *)
(* signs the bytes it sends, the handler signs JSON.stringify(body).       *)
(* Hmac stands for crypto.createHmac("sha256", key).update(text)           *)
(* .digest("hex"), taken to be collision free.                             *)
(***************************************************************************)
MkText(form, canonical, event, data) ==
    [form |-> form, canonical |-> canonical, event |-> event, data |-> data]

NoText == MkText("none", FALSE, U, UndefData)

TamperedText == MkText("object", TRUE, "tampered", EmptyData)

\* JSON.stringify(b) does not give a string update() accepts: it throws on a
\* cycle, and gives undefined (which update() rejects) for an undefined body.
StringifyFails(b) == b.kind = "undefined" \/ (b.kind = "object" /\ ~b.serializable)

JSONstringify(b) ==
    CASE b.kind = "null" -> MkText("null", TRUE, U, UndefData)
      [] b.kind = "string" -> MkText("quoted", b.canonical, b.event, b.data)
      [] OTHER -> MkText("object", TRUE, b.event, b.data)

\* The bytes on the wire, which a sender signs.
WireText(b) ==
    CASE b.kind = "undefined" -> NoText
      [] b.kind = "string" /\ ~b.json -> MkText("garbage", FALSE, U, UndefData)
      [] b.kind = "string" -> MkText("object", b.canonical, b.event, b.data)
      [] OTHER -> JSONstringify(b)

Hmac(key, text) == [key |-> key, text |-> text]

NoDigest == Hmac("", NoText)

\* req.headers["x-webhook-signature"]: absent, sent empty, or a hex digest.
NoHeader == [present |-> FALSE, digest |-> NoDigest]

EmptyHeader == [present |-> TRUE, digest |-> NoDigest]

Header(d) == [present |-> TRUE, digest |-> d]

\* JavaScript truthiness of the header value: undefined and "" are falsy.
HeaderTruthy(s) == s.present /\ s.digest # NoDigest

TheSecret == "s3cret"

Keys == {TheSecret, "wrong-key"}

Headers(b) ==
    {NoHeader, EmptyHeader}
    \cup {Header(Hmac(k, t)) :
            k \in Keys,
            t \in ({WireText(b), TamperedText}
                    \cup (IF StringifyFails(b) THEN {} ELSE {JSONstringify(b)}))
                   \ {NoText}}

Methods == {"POST", "GET", "PUT"}

MkRequest(method, body, signature) ==
    [method |-> method, body |-> body, signature |-> signature]

AllRequests ==
    UNION {{MkRequest("POST", b, s) : s \in Headers(b)} : b \in Bodies}
    \cup {MkRequest(m, UndefinedBody, NoHeader) : m \in Methods \ {"POST"}}

\* With several invocations in flight, the requests are drawn from this part.
FewRequests ==
    {MkRequest("POST", MkBody("object", FALSE, TRUE, TRUE, c[1], c[2]), NoHeader) :
       c \in {<<"messages.received", ExampleData>>,
              <<"session.status", MkData(TRUE, U, NoMessage, U, U, U, "disconnected")>>,
              <<"other.event", EmptyData>>}}
    \cup {MkRequest("POST",
                    MkBody("object", FALSE, TRUE, TRUE, "messages.received", ExampleData),
                    Header(Hmac(TheSecret, TamperedText))),
          MkRequest("GET", UndefinedBody, NoHeader)}

(***************************************************************************)
(* The process environment (read-only while requests are served).          *)
(***************************************************************************)
MessageUrl == "https://n8n.example/whatsapp-message"

AlertUrl == "https://n8n.example/alert"

Environments ==
    [WHATSAPP_WEBHOOK_SECRET : {U, TheSecret},
     N8N_WHATSAPP_MESSAGE_WEBHOOK_URL : {U, MessageUrl},
     N8N_ALERT_WEBHOOK_URL : {U, AlertUrl}]

(***************************************************************************)
(* One invocation of handler(req, res).                                    *)
(*   pc       where the invocation stands                                  *)
(*   req      the request                                                  *)
(*   body, event, data   the handler's locals                              *)
(*   sent     the responses written to res, in order                       *)
(*   fetches  the calls of fetch(url, ...), in order                       *)
(*   outcome  how the awaited fetch ended                                  *)
(*   raised   the exceptions thrown, caught or not, in order               *)
(*   escaped  an exception left the handler                                *)
(*   steps    the steps taken, in order                                    *)
(***************************************************************************)
NoRequest == MkRequest("POST", UndefinedBody, NoHeader)

Fresh(pc) ==
    [pc |-> pc, req |-> NoRequest, body |-> UndefinedBody, event |-> U,
     data |-> UndefData, sent |-> <<>>, fetches |-> <<>>, outcome |-> "none",
     raised |-> <<>>, escaped |-> FALSE, steps |-> <<>>]

\* res.status(status).json({...})
Response(status, success, error, event, message) ==
    [status |-> status, success |-> success, error |-> error, event |-> event,
     message |-> message]

\* return res.status(...).json(...): the response is written and the
\* invocation ends.
Reply(s, r) ==
    [s EXCEPT !.sent = Append(@, r), !.steps = Append(@, "respond"), !.pc = "done"]

\* An exception no try block of the handler encloses: the invocation ends
\* without writing a response.
Escape(s, e) ==
    [s EXCEPT !.raised = Append(@, e), !.escaped = TRUE, !.pc = "done"]

\* webhook.js: the catch block at the end of the handler answers 200 with
\* success: false.
Catch1(s, e) ==
    Reply([s EXCEPT !.raised = Append(@, e)],
          Response(200, "false", e, U, "Error logged, webhook acknowledged"))

Step(s, name, pc) == [s EXCEPT !.steps = Append(@, name), !.pc = pc]

Active == {r \in Slots : h[r].pc # "off"}

Requests == IF Cardinality(Active) > 1 THEN FewRequests ELSE AllRequests

\* The runtime invokes handler(req, res) for an inbound request.
Receive(r) ==
    /\ h[r].pc = "idle"
    /\ \E q \in Requests : h' = [h EXCEPT ![r] = [Fresh("admit") EXCEPT !.req = q]]
    /\ UNCHANGED <<variant, env, fetchHonoursTimeout>>

\* Request admission: the method checks that open each handler.
Admitted(s) ==
    CASE variant = 1 /\ s.req.method = "GET" ->
           Reply(Step(s, "admit", "admit"),
                 Response(200, U, U, U, "webhook endpoint is active"))
      [] s.req.method # "POST" ->
           Reply(Step(s, "admit", "admit"),
                 Response(405, U, "Method Not Allowed", U, U))
      [] OTHER -> Step(s, "admit", "parse")

Admit(r) ==
    /\ h[r].pc = "admit"
    /\ h' = [h EXCEPT ![r] = Admitted(h[r])]
    /\ UNCHANGED <<variant, env, fetchHonoursTimeout>>

\* Reading the body, up to the signature check.
\*   webhook.js logs req.body and reads its fields only after the check;
\*   variant 2 reads req.body.event and req.body.data outside any try block;
\*   variant 3 decodes a string body and reads body?.event and body?.data.
Parsed(s) ==
    LET b == s.req.body IN
    CASE variant = 1 -> Step([s EXCEPT !.body = b], "parse", "verify")
      [] variant = 2 ->
           IF Nullish(b)
             THEN Escape(Step(s, "parse", "parse"), "TypeError")
             ELSE Step([s EXCEPT !.body = b, !.event = PropEvent(b),
                                 !.data = PropData(b)], "parse", "verify")
      [] OTHER ->
           IF IsString(b) /\ ~JSONparseOk(b)
             THEN Reply(Step([s EXCEPT !.raised = Append(@, "SyntaxError")],
                             "parse", "parse"),
                        Response(400, U, "Invalid JSON", U, U))
             ELSE LET p == IF IsString(b) THEN JSONparse(b) ELSE b IN
                  Step([s EXCEPT !.body = p,
                                 !.event = IF Nullish(p) THEN U ELSE PropEvent(p),
                                 !.data = IF Nullish(p) THEN UndefData ELSE PropData(p)],
                       "parse", "verify")

ParseBody(r) ==
    /\ h[r].pc = "parse"
    /\ h' = [h EXCEPT ![r] = Parsed(h[r])]
    /\ UNCHANGED <<variant, env, fetchHonoursTimeout>>

\* A check that tests the secret alone: if (secret).
SignatureChecked_secretOnly(secret, signature) == Truthy(secret)

\* if (secret && signature)
SignatureChecked(secret, signature) == Truthy(secret) /\ HeaderTruthy(signature)

\* Where a request that is past the signature check goes on.
AfterVerify == IF variant = 1 THEN "extract" ELSE "route"

\* A signature check whose 401 branch lacks its `return`.
Verified_noReturn(s) ==
    LET signature == s.req.signature
        secret == env.WHATSAPP_WEBHOOK_SECRET
    IN
    IF SignatureChecked(secret, signature) /\ ~StringifyFails(s.body)
         /\ Hmac(secret, JSONstringify(s.body)) # signature.digest
      THEN [Step(s, "authenticate", AfterVerify) EXCEPT
              !.sent = Append(@, Response(401, U, "Invalid signature", U, U))]
      ELSE Step(s, "authenticate", AfterVerify)

\* The signature check.  A failing JSON.stringify/update is caught by the
\* handler-wide try in webhook.js (200, success: false), by nothing in
\* variant 2, and by the check's own try in variant 3 (500).
Verified(s) ==
    LET signature == s.req.signature
        secret == env.WHATSAPP_WEBHOOK_SECRET
        t == Step(s, "authenticate", "verify")
    IN
    IF ~SignatureChecked(secret, signature)
      THEN Step(s, "authenticate", AfterVerify)
      ELSE IF StringifyFails(s.body)
        THEN CASE variant = 1 -> Catch1(t, "TypeError")
               [] variant = 2 -> Escape(t, "TypeError")
               [] OTHER -> Reply([t EXCEPT !.raised = Append(@, "TypeError")],
                                 Response(500, U, "Signature check failed", U, U))
        ELSE IF Hmac(secret, JSONstringify(s.body)) # signature.digest
          THEN Reply(t, Response(401, U, "Invalid signature", U, U))
          ELSE Step(s, "authenticate", AfterVerify)

VerifySignature(r) ==
    /\ h[r].pc = "verify"
    /\ h' = [h EXCEPT ![r] = Verified(h[r])]
    /\ UNCHANGED <<variant, env, fetchHonoursTimeout>>

\* webhook.js only: read event and data from req.body (data defaults to {}),
\* and answer 400 when event is missing.  res.json serializes what it is
\* given, so echoing an unserializable req.body throws into the catch block.
Extracted(s) ==
    LET b == s.body
        t == Step(s, "classify", "extract")
    IN
    IF Nullish(b)
      THEN Catch1(t, "TypeError")
      ELSE LET event == PropEvent(b)
               data == IF PropData(b).defined THEN PropData(b) ELSE EmptyData
               u == [t EXCEPT !.event = event, !.data = data]
           IN
           IF ~Truthy(event)
             THEN IF b.kind = "object" /\ ~b.serializable
                    THEN Catch1(u, "TypeError")
                    ELSE Reply(u, Response(400, U, "Missing required field: event",
                                           U, U))
             ELSE [u EXCEPT !.pc = "route"]

ExtractEvent(r) ==
    /\ h[r].pc = "extract"
    /\ h' = [h EXCEPT ![r] = Extracted(h[r])]
    /\ UNCHANGED <<variant, env, fetchHonoursTimeout>>

\* The message_received payload built from data.
NormalizedMessage(s) ==
    LET data == s.data
        m == OptMessage(data)
        x == OptExtended(m)
    IN
    IF variant = 1
      THEN [event |-> "message_received", session_id |-> s.body.session_id,
            from |-> data.from, to |-> data.to,
            message |-> [id |-> data.keyId,
                         text |-> Or(Or(m.conversation, x.text), data.text),
                         timestamp |-> s.body.timestamp,
                         type |-> Or(m.messageType, "text")],
            contact |-> [name |-> Or(data.pushName, data.name),
                         phone |-> data.from],
            raw_data |-> data]
      ELSE [event |-> "message_received", session_id |-> U,
            from |-> data.from, to |-> data.to,
            message |-> [id |-> data.keyId,
                         text |-> Or(m.conversation, x.text),
                         timestamp |-> data.messageTimestamp,
                         type |-> Or(m.messageType, "text")],
            contact |-> [name |-> data.pushName, phone |-> data.from],
            raw_data |-> data]

\* The whatsapp_disconnected payload.
DisconnectAlert(s) ==
    IF variant = 1
      THEN [event |-> "whatsapp_disconnected", session_id |-> s.body.session_id,
            status |-> s.data.status, timestamp |-> s.body.timestamp]
      ELSE [event |-> "whatsapp_disconnected", session_id |-> U,
            status |-> U, timestamp |-> "now"]

\* The condition under which session.status raises the alert.
IsDisconnect(status) ==
    IF variant = 1 THEN status \in {"disconnected", "offline"}
                   ELSE status = "disconnected"

\* A forward that is dropped when another invocation already made the same call.
forwardToN8n_dedup(s, url, payload) ==
    IF ~Truthy(url)
         \/ \E r \in Slots :
              [url |-> url, payload |-> payload] \in {h[r].fetches[i] :
                                                       i \in 1..Len(h[r].fetches)}
      THEN [s EXCEPT !.pc = "respond"]
      ELSE [s EXCEPT !.fetches = Append(@, [url |-> url, payload |-> payload]),
                     !.steps = Append(@, "forward"),
                     !.pc = "awaiting"]

\* forwardToN8n(url, payload), up to its await.  webhook.js and variant 3
\* return false at once when the URL is unset; variant 2 has no such test and
\* calls fetch(undefined, ...), whose rejection its catch block logs.
forwardToN8n(s, url, payload) ==
    IF ~Truthy(url)
      THEN IF variant = 2
             THEN [s EXCEPT !.fetches = Append(@, [url |-> url, payload |-> payload]),
                            !.raised = Append(@, "TypeError"),
                            !.pc = "respond"]
             ELSE [s EXCEPT !.pc = "respond"]
      ELSE [s EXCEPT !.fetches = Append(@, [url |-> url, payload |-> payload]),
                     !.steps = Append(@, "forward"),
                     !.pc = "awaiting"]

\* An exception inside the routing try block of variants 2 and 3: logged, and
\* the handler goes on to acknowledge.
Caught(s, e) == [s EXCEPT !.raised = Append(@, e), !.pc = "respond"]

\* switch (event)
Routed(s) ==
    LET t == Step(s, "classify", "route")
        data == s.data
        event == s.event
        \* variant 2 reads data.from, data.status, data.key without ?.
        throws == variant = 2 /\ ~data.defined
    IN
    CASE event \in {"messages.received", "messages-personal.received"} ->
           IF throws THEN Caught(t, "TypeError")
           ELSE forwardToN8n(t, env.N8N_WHATSAPP_MESSAGE_WEBHOOK_URL,
                             NormalizedMessage(t))
      [] event = "session.status" ->
           IF throws THEN Caught(t, "TypeError")
           ELSE IF IsDisconnect(data.status)
             THEN forwardToN8n(t, env.N8N_ALERT_WEBHOOK_URL, DisconnectAlert(t))
             ELSE [t EXCEPT !.pc = "respond"]
      [] event = "message.sent" ->
           IF throws THEN Caught(t, "TypeError") ELSE [t EXCEPT !.pc = "respond"]
      [] OTHER -> [t EXCEPT !.pc = "respond"]

Route(r) ==
    /\ h[r].pc = "route"
    /\ h' = [h EXCEPT ![r] = Routed(h[r])]
    /\ UNCHANGED <<variant, env, fetchHonoursTimeout>>

\* The downstream endpoint answers, or the connection fails: forwardToN8n
\* returns true or false and the handler resumes.
Settled(s, o) ==
    [s EXCEPT !.outcome = o,
              !.raised = IF o = "network-error" THEN Append(@, "FetchError") ELSE @,
              !.steps = Append(@, "settled"),
              !.pc = "respond"]

FetchSettle(r) ==
    /\ h[r].pc = "awaiting"
    /\ \E o \in {"ok", "error-status", "network-error"} :
         h' = [h EXCEPT ![r] = Settled(h[r], o)]
    /\ UNCHANGED <<variant, env, fetchHonoursTimeout>>

\* Only variant 2 passes `timeout: 10000` to fetch, and only a fetch that
\* honours the option rejects when the time is up.
TimeoutArmed == variant = 2 /\ fetchHonoursTimeout

FetchTimeout(r) ==
    /\ h[r].pc = "awaiting"
    /\ TimeoutArmed
    /\ h' = [h EXCEPT ![r] = [Settled(h[r], "timeout") EXCEPT
                                !.raised = Append(@, "TimeoutError")]]
    /\ UNCHANGED <<variant, env, fetchHonoursTimeout>>

\* The acknowledgment that ends the handler.
Acknowledgment(s) ==
    CASE variant = 1 -> Response(200, "true", U, s.event, "Webhook received successfully")
      [] variant = 2 -> Response(200, "true", U, s.event, U)
      [] OTHER -> Response(200, "true", U, Or(s.event, "unknown"), U)

Respond(r) ==
    /\ h[r].pc = "respond"
    /\ h' = [h EXCEPT ![r] = Reply(h[r], Acknowledgment(h[r]))]
    /\ UNCHANGED <<variant, env, fetchHonoursTimeout>>

Variants == {1, 2, 3}

Deployed ==
    /\ variant \in Variants
    /\ env \in Environments
    /\ fetchHonoursTimeout \in BOOLEAN
    /\ variant # 2 => ~fetchHonoursTimeout

\* One request at a time, any request.
Init ==
    /\ Deployed
    /\ h = [r \in Slots |-> IF r = 1 THEN Fresh("idle") ELSE Fresh("off")]

\* MaxInFlight requests in flight together.
ConcInit ==
    /\ Deployed
    /\ h = [r \in Slots |-> Fresh("idle")]

Next ==
    \E r \in Slots :
      \/ Receive(r)
      \/ Admit(r)
      \/ ParseBody(r)
      \/ VerifySignature(r)
      \/ ExtractEvent(r)
      \/ Route(r)
      \/ FetchSettle(r)
      \/ FetchTimeout(r)
      \/ Respond(r)

Spec == Init /\ [][Next]_vars

ConcSpec == ConcInit /\ [][Next]_vars

\* The runtime runs every invocation it started, and a timer that is armed
\* fires; nothing makes the downstream endpoint answer.
Fairness ==
    \A r \in Slots :
      /\ WF_vars(Admit(r)) /\ WF_vars(ParseBody(r)) /\ WF_vars(VerifySignature(r))
      /\ WF_vars(ExtractEvent(r)) /\ WF_vars(Route(r)) /\ WF_vars(Respond(r))
      /\ WF_vars(FetchTimeout(r))

FairSpec == Init /\ [][Next]_vars /\ Fairness

(***************************************************************************)
(* Properties.                                                             *)
(***************************************************************************)
Range(q) == {q[i] : i \in 1..Len(q)}

Statuses(s) == {x.status : x \in Range(s.sent)}

Done(s) == s.pc = "done"

\* The request went through the signature step.
Authenticated(s) == "authenticate" \in Range(s.steps)

\* The request is past the signature step and was not stopped by it.
Continued(s) == s.pc \in {"extract", "route"} \/ "classify" \in Range(s.steps)

\* The request is past the event switch.
PastRouting(s) == s.pc \in {"awaiting", "respond", "done"} /\ "classify" \in Range(s.steps)

\* An object body that JSON can serialize, with a data object.
PlainObject(b) == b.kind = "object" /\ b.serializable /\ b.data.defined

RecognizedEvents ==
    {"webhook.test", "messages.received", "messages-personal.received",
     "message.sent", "message-receipt.update", "session.status", "qrcode.updated"}

\* Calls of fetch that go out on the network.
Outbound(s) == SelectSeq(s.fetches, LAMBDA f : Truthy(f.url))

\* C1: every invocation that has ended has written exactly one response, and
\* no invocation ever writes two.
C1_ExactlyOneResponse ==
    \A r \in Slots :
      /\ Len(h[r].sent) <= 1
      /\ Done(h[r]) => Len(h[r].sent) = 1

C3_UnrecognizedAcknowledged ==
    \A r \in Slots :
      LET s == h[r] IN
      (Done(s) /\ s.req.method = "POST" /\ PlainObject(s.req.body)
         /\ 401 \notin Statuses(s)
         /\ s.req.body.event \notin RecognizedEvents)
        => /\ s.fetches = <<>>
           /\ Len(s.sent) = 1
           /\ s.sent[1].status = 200
           /\ s.sent[1].success = "true"

\* C4: with the alert URL configured, a session.status event whose status is
\* "disconnected" or "offline" makes exactly one forward call, to the alert
\* URL, with event "whatsapp_disconnected"; any other status makes none.
C4_DisconnectAlerts ==
    \A r \in Slots :
      LET s == h[r] IN
      (PastRouting(s) /\ PlainObject(s.req.body)
         /\ s.req.body.event = "session.status"
         /\ env.N8N_ALERT_WEBHOOK_URL = AlertUrl)
        => IF s.req.body.data.status \in {"disconnected", "offline"}
             THEN /\ Len(s.fetches) = 1
                  /\ s.fetches[1].url = AlertUrl
                  /\ s.fetches[1].payload.event = "whatsapp_disconnected"
             ELSE s.fetches = <<>>

\* C5: a POST request whose body is a string that is not valid JSON is
\* answered 400 {error: "Invalid JSON"} and goes no further: no signature
\* check, no routing, no forward call.
C5_InvalidJsonRejected ==
    \A r \in Slots :
      LET s == h[r] IN
      (Done(s) /\ s.req.method = "POST" /\ s.req.body = BadString)
        => /\ s.sent = <<Response(400, U, "Invalid JSON", U, U)>>
           /\ ~Authenticated(s)
           /\ "classify" \notin Range(s.steps)
           /\ s.fetches = <<>>

\* C6: a request that awaits a forward call is answered in the end with the
\* 200 success acknowledgment, whatever the downstream endpoint does: 2xx,
\* non-2xx, network error, or no answer at all (bounded wait).
C6_ForwardAlwaysAnswered ==
    \A r \in Slots :
      (h[r].pc = "awaiting")
        ~> (Done(h[r]) /\ h[r].sent = <<Acknowledgment(h[r])>>)

\* C7: a messages.received or messages-personal.received event with a data
\* object raises no error and makes one message_received forward to the
\* message URL, whose message.text is data.message.conversation, else
\* data.message.extendedTextMessage.text, else data.text, whose contact.name
\* is data.pushName, else data.name, and whose raw_data is data.
C7_NormalizedMessage ==
    \A r \in Slots :
      LET s == h[r]
          d == s.req.body.data
      IN
      (PastRouting(s) /\ PlainObject(s.req.body)
         /\ s.req.body.event \in {"messages.received", "messages-personal.received"}
         /\ env.N8N_WHATSAPP_MESSAGE_WEBHOOK_URL = MessageUrl)
        => /\ Len(s.fetches) = 1
           /\ s.fetches[1].url = MessageUrl
           /\ s.fetches[1].payload.event = "message_received"
           /\ s.fetches[1].payload.message.text
                = Or(Or(d.message.conversation, d.message.extendedTextMessage.text),
                     d.text)
           /\ s.fetches[1].payload.contact.name = Or(d.pushName, d.name)
           /\ s.fetches[1].payload.raw_data = d
           /\ "TypeError" \notin Range(s.raised)

\* The URL the request's forward goes to, U when the request has no forward.
\* (Only the status every variant alerts on is counted.)
ForwardUrl(q) ==
    CASE q.body.event \in {"messages.received", "messages-personal.received"} ->
           env.N8N_WHATSAPP_MESSAGE_WEBHOOK_URL
      [] q.body.event = "session.status" /\ q.body.data.status = "disconnected" ->
           env.N8N_ALERT_WEBHOOK_URL
      [] OTHER -> "none"

\* C8: when the URL of a request's forward is unset, no outbound call is
\* made, no error is raised, and the response is the 200 success
\* acknowledgment.
C8_UnsetUrlSkipsForward ==
    \A r \in Slots :
      LET s == h[r] IN
      (Done(s) /\ s.req.method = "POST" /\ PlainObject(s.req.body)
         /\ 401 \notin Statuses(s)
         /\ ForwardUrl(s.req) = U)
        => /\ Outbound(s) = <<>>
           /\ s.raised = <<>>
           /\ s.sent = <<Acknowledgment(s)>>

Rank(step) ==
    CASE step = "admit" -> 1
      [] step = "parse" -> 2
      [] step = "authenticate" -> 3
      [] step = "classify" -> 4
      [] step = "forward" -> 5
      [] step = "settled" -> 6
      [] OTHER -> 7

\* C10: the steps of a request run in the order admit, parse, authenticate,
\* classify, forward, respond; a forward call is made only for a POST that is
\* through the signature step; a response is written only when no forward is
\* pending, and ends the invocation; a request answered 405, 400, 401 or 500
\* made no forward call; every method other than POST and GET is answered 405.
C10_StepOrder ==
    \A r \in Slots :
      LET s == h[r] IN
      /\ \A i, j \in 1..Len(s.steps) : i < j => Rank(s.steps[i]) <= Rank(s.steps[j])
      /\ s.fetches # <<>>
           => s.req.method = "POST" /\ Authenticated(s) /\ "admit" \in Range(s.steps)
      /\ s.sent # <<>> => Done(s)
      /\ (s.sent # <<>> /\ "forward" \in Range(s.steps)) => "settled" \in Range(s.steps)
      /\ Statuses(s) \cap {405, 400, 401, 500} # {} => s.fetches = <<>>
      /\ (Done(s) /\ s.req.method \notin {"POST", "GET"}) => Statuses(s) = {405}

C10_Witness ==
    \E r \in Slots :
      /\ h[r].steps = <<"admit", "parse", "authenticate", "classify", "forward",
                        "settled", "respond">>
      /\ h[r].outcome = "network-error"
      /\ env.WHATSAPP_WEBHOOK_SECRET = TheSecret
      /\ HeaderTruthy(h[r].req.signature)

====
